---- MODULE Spec2Model ----
(***************************************************************************)
(* Model of cyberflying/postgres-agents.                                   *)
(*                                                                         *)
(*   src/src/simple_postgres_and_ai_agent.py                 ("simple")    *)
(*   src/src/advanced_postgres_and_ai_agent_with_tracing.py  ("advanced")  *)
(*   src/src/legal_agent_tools.py          (vector_search_cases,           *)
(*                                          count_cases)                   *)
(*                                                                         *)
(* Spec      : the two session-driver scripts, statement by statement.     *)
(*             The remote agent service is the environment: every remote   *)
(*             call may raise, and every run it reports is drawn from      *)
(*             Runs.  An uncaught exception ends the script ("aborted").   *)
(* SpecTools : the two SQL tools applied to a bounded table of cases.      *)
(***************************************************************************)
EXTENDS Integers, Sequences, FiniteSets

VARIABLES
    script,         \* which script runs: "simple" or "advanced"
    pc,             \* position of the script
    now,            \* wall clock, in seconds
    agent,          \* the script's variable `agent` (None, or the agent's id)
    run,            \* the script's variable `run` (the last run object fetched)
    i,              \* index of the for loop over tool_calls
    tool_outputs,   \* the script's list `tool_outputs`
    calls,          \* the remote calls issued so far, in order (operation names)
    request,        \* the arguments of the last remote call issued
    out,            \* the final report lines printed
    cases,          \* the table `cases`: row id -> [decision_date, distance]
    args,           \* the arguments of a tool invocation
    search_result,  \* what vector_search_cases returned
    count_result    \* what count_cases returned

driver_vars == <<script, pc, now, agent, run, i, tool_outputs, calls, request, out>>
tool_vars   == <<cases, args, search_result, count_result>>
vars        == <<script, pc, now, agent, run, i, tool_outputs, calls, request, out,
                 cases, args, search_result, count_result>>

(***************************************************************************)
(* Bounds of the model.                                                    *)
(***************************************************************************)
MaxPolls == 2       \* get_run calls the model follows
MaxCalls == 2       \* tool calls in one requires_action batch
MaxTick  == 1       \* seconds the clock may be ahead / a lookup may take
MaxRows  == 3       \* rows of the table `cases`
MaxLimit == 2       \* largest `limit` argument

None == "None"

Min(a, b) == IF a < b THEN a ELSE b

Last(s) == s[Len(s)]

Count(op, log) == Cardinality({k \in 1..Len(log) : log[k] = op})

(***************************************************************************)
(* The remote service's values.                                            *)
(***************************************************************************)
AGENT_ID == "asst_mMiZtMQ1euvQtQ7hh56dMT96"

CreatedAgentId == "asst_created"

\* every status string the service may report; those outside the loop's list
\* are all treated alike by the scripts
Statuses == {"queued", "in_progress", "requires_action",
             "cancelling", "cancelled", "failed", "completed", "expired"}

\* a required tool call: the service gives the calls of a batch distinct ids
\* (here: the position in the batch); `kind` is "function" for a
\* RequiredFunctionToolCall; `outcome` is what executing the local function
\* with the call's arguments does
ToolCall(k, kind, outcome) == [id |-> k, kind |-> kind, outcome |-> outcome]

ToolCallBehaviours == {<<"function", "ok">>, <<"function", "raise">>,
                       <<"other", "ok">>}

Batches ==
    UNION {{[k \in 1..n |-> ToolCall(k, b[k][1], b[k][2])] :
              b \in [1..n -> ToolCallBehaviours]} : n \in 0..MaxCalls}

\* run.required_action: None, a SubmitToolOutputsAction with its tool calls,
\* or an action of another type
RequiredActions ==
    {[kind |-> None, tool_calls |-> <<>>], [kind |-> "other", tool_calls |-> <<>>]}
    \cup {[kind |-> "submit_tool_outputs", tool_calls |-> b] : b \in Batches}

LastErrorOf(status) == IF status = "failed" THEN "server_error" ELSE None

Runs == {[status |-> s, last_error |-> LastErrorOf(s), required_action |-> a] :
            s \in Statuses, a \in RequiredActions}

NoRun == [status |-> None, last_error |-> None,
          required_action |-> [kind |-> None, tool_calls |-> <<>>]]

(***************************************************************************)
(* Requests sent to the service.                                           *)
(***************************************************************************)
Request(op) == [op |-> op, agent_id |-> None, name_stamp |-> -1,
                instructions_date |-> -1, tool_outputs |-> <<>>]

SecondsPerMinute == 60

SecondsPerDay == 86400

\* datetime.now().strftime('%Y%m%d%H%M'): the clock truncated to the minute
NameStamp(t) == t \div SecondsPerMinute

\* datetime.now().strftime('%Y-%m-%d'): the clock truncated to the day
InstructionsDate(t) == t \div SecondsPerDay

(***************************************************************************)
(* The conditions of the scripts.                                          *)
(***************************************************************************)
\* `if agent is None:`
NeedsCreateMut(a) == TRUE
NeedsCreate(a) == a = None

\* `while run.status in ["queued", "in_progress", "requires_action"]:`
ActiveMut(status) == status \in {"queued", "in_progress", "requires_action", "failed"}
Active(status) == status \in {"queued", "in_progress", "requires_action"}

\* `if run.status == "requires_action" and
\*     isinstance(run.required_action, SubmitToolOutputsAction):`
NeedsToolOutputsMut(r) == r.required_action.kind = "submit_tool_outputs"
NeedsToolOutputs(r) ==
    /\ r.status = "requires_action"
    /\ r.required_action.kind = "submit_tool_outputs"

\* `if not tool_calls:`
NoToolCallsMut(tool_calls) == FALSE
NoToolCalls(tool_calls) == tool_calls = <<>>

\* the statement after the cancel_run call: `break` leaves the while loop
AfterCancelMut == "loop"
AfterCancel == "report"

\* functions.execute(tool_call): the local function's result, or an exception
Execute(tool_call) ==
    [raised |-> tool_call.outcome = "raise", output |-> <<"output", tool_call.id>>]

ToolOutput(tool_call_id, output) == [tool_call_id |-> tool_call_id, output |-> output]

\* one iteration of `for tool_call in tool_calls:`
DispatchOneMut(outputs, tool_call) ==
    IF tool_call.kind = "function"
    THEN Append(outputs, ToolOutput(tool_call.id, Execute(tool_call).output))
    ELSE outputs
DispatchOne(outputs, tool_call) ==
    IF tool_call.kind = "function"
    THEN IF Execute(tool_call).raised
         THEN outputs
         ELSE Append(outputs, ToolOutput(tool_call.id, Execute(tool_call).output))
    ELSE outputs

\* `if tool_outputs:`
HasOutputsMut(outputs) == TRUE
HasOutputs(outputs) == outputs # <<>>

(***************************************************************************)
(* The scripts.                                                            *)
(***************************************************************************)
Issue(req) ==
    /\ calls' = Append(calls, req.op)
    /\ request' = req

\* advanced: telemetry.get_connection_string(); exit() when it is empty
EnableTracing ==
    /\ pc = "tracing"
    /\ \E connection_string \in {"", "InstrumentationKey=k"} :
          /\ Issue(Request("get_connection_string"))
          /\ pc' = IF connection_string = "" THEN "exited" ELSE "get_agent"
    /\ UNCHANGED <<script, now, agent, run, i, tool_outputs, out, tool_vars>>

\* try: agent = get_agent(AGENT_ID)  except Exception: print(...)
GetAgent ==
    /\ pc = "get_agent"
    /\ \E found \in BOOLEAN, took \in 0..MaxTick :
          /\ Issue([Request("get_agent") EXCEPT !.agent_id = AGENT_ID])
          /\ agent' = IF found THEN AGENT_ID ELSE agent
          /\ now' = now + took
    /\ pc' = "create_agent"
    /\ UNCHANGED <<script, run, i, tool_outputs, out, tool_vars>>

\* if agent is None: agent = create_agent(model, name, description, instructions)
CreateAgent ==
    /\ pc = "create_agent"
    /\ IF NeedsCreate(agent)
       THEN \E ok \in BOOLEAN :
              /\ Issue([Request("create_agent") EXCEPT
                           !.name_stamp = NameStamp(now),
                           !.instructions_date = InstructionsDate(now)])
              /\ agent' = IF ok THEN CreatedAgentId ELSE agent
              /\ pc' = IF ok THEN "create_thread" ELSE "aborted"
       ELSE /\ pc' = "create_thread"
            /\ UNCHANGED <<agent, calls, request>>
    /\ UNCHANGED <<script, now, run, i, tool_outputs, out, tool_vars>>

\* thread = agents_client.threads.create()
CreateThread ==
    /\ pc = "create_thread"
    /\ Issue(Request("create_thread"))
    /\ \E ok \in BOOLEAN : pc' = IF ok THEN "create_message" ELSE "aborted"
    /\ UNCHANGED <<script, now, agent, run, i, tool_outputs, out, tool_vars>>

\* message = agents_client.messages.create(thread_id, role="user", content)
CreateMessage ==
    /\ pc = "create_message"
    /\ Issue(Request("create_message"))
    /\ \E ok \in BOOLEAN : pc' = IF ok THEN "create_run" ELSE "aborted"
    /\ UNCHANGED <<script, now, agent, run, i, tool_outputs, out, tool_vars>>

\* run = agents_client.runs.create_and_process(thread_id, agent_id=agent.id)
CreateRun ==
    /\ pc = "create_run"
    /\ Issue([Request("create_and_process") EXCEPT !.agent_id = agent])
    /\ \/ \E r \in Runs :
            /\ run' = r
            /\ pc' = IF script = "advanced" THEN "loop" ELSE "report"
       \/ /\ pc' = "aborted"
          /\ UNCHANGED run
    /\ UNCHANGED <<script, now, agent, i, tool_outputs, out, tool_vars>>

\* the test of the while loop
LoopTest ==
    /\ pc = "loop"
    /\ pc' = IF Active(run.status) THEN "poll" ELSE "report"
    /\ UNCHANGED <<script, now, agent, run, i, tool_outputs, calls, request, out,
                   tool_vars>>

\* time.sleep(1); run = agents_client.get_run(thread_id, run_id)
Poll ==
    /\ pc = "poll"
    /\ Count("get_run", calls) < MaxPolls
    /\ now' = now + 1
    /\ Issue(Request("get_run"))
    /\ \/ \E r \in Runs :
            /\ run' = r
            /\ pc' = "check"
       \/ /\ pc' = "aborted"
          /\ UNCHANGED run
    /\ UNCHANGED <<script, agent, i, tool_outputs, out, tool_vars>>

\* the two ifs after the poll: a tool-output request?  an empty one?
Check ==
    /\ pc = "check"
    /\ IF NeedsToolOutputs(run)
       THEN IF NoToolCalls(run.required_action.tool_calls)
            THEN /\ pc' = "cancel"
                 /\ UNCHANGED <<i, tool_outputs>>
            ELSE /\ pc' = "dispatch"
                 /\ tool_outputs' = <<>>
                 /\ i' = 1
       ELSE /\ pc' = "loop"
            /\ UNCHANGED <<i, tool_outputs>>
    /\ UNCHANGED <<script, now, agent, run, calls, request, out, tool_vars>>

\* agents_client.cancel_run(thread_id, run_id); break
CancelRun ==
    /\ pc = "cancel"
    /\ Issue(Request("cancel_run"))
    /\ \E ok \in BOOLEAN : pc' = IF ok THEN AfterCancel ELSE "aborted"
    /\ UNCHANGED <<script, now, agent, run, i, tool_outputs, out, tool_vars>>

\* one iteration of the for loop over tool_calls
Dispatch ==
    /\ pc = "dispatch"
    /\ i <= Len(run.required_action.tool_calls)
    /\ tool_outputs' = DispatchOne(tool_outputs, run.required_action.tool_calls[i])
    /\ i' = i + 1
    /\ UNCHANGED <<script, pc, now, agent, run, calls, request, out, tool_vars>>

\* after the for loop: if tool_outputs: submit_tool_outputs_to_run(...)
Submit ==
    /\ pc = "dispatch"
    /\ i > Len(run.required_action.tool_calls)
    /\ IF HasOutputs(tool_outputs)
       THEN /\ Issue([Request("submit_tool_outputs") EXCEPT
                         !.tool_outputs = tool_outputs])
            /\ \E ok \in BOOLEAN : pc' = IF ok THEN "loop" ELSE "aborted"
       ELSE /\ pc' = "loop"
            /\ UNCHANGED <<calls, request>>
    /\ UNCHANGED <<script, now, agent, run, i, tool_outputs, out, tool_vars>>

\* simple:   print("Run finished with status"); if failed: print(last_error)
\* advanced: print("Run completed with status")
Report ==
    /\ pc = "report"
    /\ out' = IF script = "simple"
              THEN IF run.status = "failed"
                   THEN <<[text |-> "Run finished with status", value |-> run.status],
                          [text |-> "Run failed", value |-> run.last_error]>>
                   ELSE <<[text |-> "Run finished with status", value |-> run.status]>>
              ELSE <<[text |-> "Run completed with status", value |-> run.status]>>
    /\ pc' = "list_messages"
    /\ UNCHANGED <<script, now, agent, run, i, tool_outputs, calls, request, tool_vars>>

\* messages = agents_client.messages.list(thread_id); print each
ListMessages ==
    /\ pc = "list_messages"
    /\ Issue(Request("list_messages"))
    /\ \E ok \in BOOLEAN : pc' = IF ok THEN "done" ELSE "aborted"
    /\ UNCHANGED <<script, now, agent, run, i, tool_outputs, out, tool_vars>>

NoTool ==
    /\ cases = <<>>
    /\ args = [start_date |-> <<1911, 1, 1>>, end_date |-> <<2025, 12, 31>>, limit |-> 0]
    /\ search_result = [status |-> None, rows |-> <<>>]
    /\ count_result = [status |-> None, rows |-> <<>>]

Init ==
    /\ script \in {"simple", "advanced"}
    /\ pc = IF script = "advanced" THEN "tracing" ELSE "get_agent"
    /\ now \in {SecondsPerMinute - MaxTick + k : k \in 0..MaxTick}
    /\ agent = None
    /\ run = NoRun
    /\ i = 0
    /\ tool_outputs = <<>>
    /\ calls = <<>>
    /\ request = Request(None)
    /\ out = <<>>
    /\ NoTool

Next ==
    \/ EnableTracing
    \/ GetAgent
    \/ CreateAgent
    \/ CreateThread
    \/ CreateMessage
    \/ CreateRun
    \/ LoopTest
    \/ Poll
    \/ Check
    \/ CancelRun
    \/ Dispatch
    \/ Submit
    \/ Report
    \/ ListMessages

Spec == Init /\ [][Next]_vars

(***************************************************************************)
(* The tools of legal_agent_tools.py.                                      *)
(*                                                                         *)
(* A date string "YYYY-MM-DD" is the triple of its three numbers.  The     *)
(* distance `opinions_vector <=> create_embeddings(model, query)` of a row *)
(* to the query is a column of the modelled table, in tenths.              *)
(***************************************************************************)
DISTANCE_THRESHOLD == 8

DateStrings == {<<2015, 1, 1>>, <<2015, 12, 31>>, <<2016, 1, 1>>, <<2015, 2, 30>>}

IsLeap(y) == (y % 4 = 0 /\ y % 100 # 0) \/ y % 400 = 0

DaysInMonth(y, m) ==
    IF m = 2 THEN (IF IsLeap(y) THEN 29 ELSE 28)
    ELSE IF m \in {4, 6, 9, 11} THEN 30 ELSE 31

\* datetime.strptime(s, "%Y-%m-%d") raises ValueError on a date that does not exist
ParsesAsDate(s) ==
    /\ s[2] \in 1..12
    /\ s[3] \in 1..DaysInMonth(s[1], s[2])

\* days of the months before month m of year y
RECURSIVE DaysBefore(_, _)
DaysBefore(y, m) == IF m = 1 THEN 0 ELSE DaysBefore(y, m - 1) + DaysInMonth(y, m - 1)

\* datetime.strptime(s, "%Y-%m-%d"): the day, counted from 2015-01-01
RECURSIVE DaysBeforeYear(_)
DaysBeforeYear(y) ==
    IF y <= 2015 THEN 0
    ELSE DaysBeforeYear(y - 1) + (IF IsLeap(y - 1) THEN 366 ELSE 365)

Strptime(s) == DaysBeforeYear(s[1]) + DaysBefore(s[1], s[2]) + (s[3] - 1)

StoredDates == {Strptime(s) : s \in {d \in DateStrings : ParsesAsDate(d)}}

Distances == {DISTANCE_THRESHOLD - 1, DISTANCE_THRESHOLD}

Tables ==
    UNION {[1..n -> [decision_date : StoredDates, distance : Distances]] :
              n \in 0..MaxRows}

\* WHERE decision_date BETWEEN %s AND %s
BetweenMut(x, lo, hi) == lo < x /\ x <= hi
Between(x, lo, hi) == lo <= x /\ x <= hi

\* ORDER BY similarity: the orders of the rows `ids` the database may produce
\* (rows at the same distance come in any order)
Orderings(table, ids) ==
    {f \in [1..Cardinality(ids) -> ids] :
        /\ \A a, b \in 1..Cardinality(ids) : a # b => f[a] # f[b]
        /\ \A a, b \in 1..Cardinality(ids) :
              a < b => table[f[a]].distance <= table[f[b]].distance}

\* LIMIT %s
LimitRows(rows, n) == SubSeq(rows, 1, Min(n, Len(rows)))

\* SELECT id, name, opinion, ... AS similarity: decision_date is not selected
SelectCase(table, id) == [id |-> id, similarity |-> table[id].distance]

\* WHERE opinions_vector <=> create_embeddings(...)::vector < 0.8
BelowThreshold(distance) == distance < DISTANCE_THRESHOLD

\* SELECT COUNT(*) ... WHERE ... : an aggregate without GROUP BY is one row
CountRows(table) ==
    <<[count |-> Cardinality({id \in DOMAIN table : BelowThreshold(table[id].distance)})]>>

VectorSearchCases ==
    /\ search_result.status = None
    /\ count_result.status = None
    /\ IF ParsesAsDate(args.start_date) /\ ParsesAsDate(args.end_date)
       THEN \E order \in Orderings(cases,
                  {id \in DOMAIN cases :
                      Between(cases[id].decision_date,
                              Strptime(args.start_date), Strptime(args.end_date))}) :
              search_result' =
                  [status |-> "ok",
                   rows |-> LimitRows([k \in 1..Len(order) |-> SelectCase(cases, order[k])],
                                      args.limit)]
       ELSE search_result' = [status |-> "ValueError", rows |-> <<>>]
    /\ UNCHANGED <<cases, args, count_result, driver_vars>>

CountCases ==
    /\ search_result.status = None
    /\ count_result.status = None
    /\ count_result' = [status |-> "ok", rows |-> LimitRows(CountRows(cases), args.limit)]
    /\ UNCHANGED <<cases, args, search_result, driver_vars>>

InitTools ==
    /\ script = "tools"
    /\ pc = "tools"
    /\ now = 0
    /\ agent = None
    /\ run = NoRun
    /\ i = 0
    /\ tool_outputs = <<>>
    /\ calls = <<>>
    /\ request = Request(None)
    /\ out = <<>>
    /\ cases \in Tables
    /\ args \in [start_date : DateStrings, end_date : DateStrings, limit : 0..MaxLimit]
    /\ search_result = [status |-> None, rows |-> <<>>]
    /\ count_result = [status |-> None, rows |-> <<>>]

NextTools ==
    \/ VectorSearchCases
    \/ CountCases

SpecTools == InitTools /\ [][NextTools]_vars

(***************************************************************************)
(* Properties.                                                             *)
(***************************************************************************)
LastIndex(op, log) ==
    IF \E k \in 1..Len(log) : log[k] = op
    THEN CHOOSE k \in 1..Len(log) :
            log[k] = op /\ \A j \in (k + 1)..Len(log) : log[j] # op
    ELSE 0

\* the remote calls issued after the last call of `op`
Since(op, log) == SubSeq(log, LastIndex(op, log) + 1, Len(log))

\* `run` is what the last get_run returned (and not a run left over from
\* before a get_run that raised)
PolledRun ==
    /\ script = "advanced"
    /\ "get_run" \in {calls[k] : k \in 1..Len(calls)}
    /\ ~(pc = "aborted" /\ request.op = "get_run")

SubmitRequested(r) ==
    r.status = "requires_action" /\ r.required_action.kind = "submit_tool_outputs"

IsTerminal(status) ==
    status \in {"cancelling", "cancelled", "failed", "completed", "expired"}

Succeeds(tool_call) == tool_call.kind = "function" /\ tool_call.outcome = "ok"

\* one {call_id, output} pair per function-type call that did not raise, in order
ExpectedOutputs(tool_calls) ==
    LET ok == SelectSeq(tool_calls, Succeeds)
    IN  [k \in 1..Len(ok) |-> [tool_call_id |-> ok[k].id, output |-> <<"output", ok[k].id>>]]

\* C1: tool outputs are submitted only when the run most recently fetched has
\* status requires_action and a submit-tool-outputs action, and that run was
\* fetched by a poll (the call right before the submission), never by the
\* run-start call.
C1_SubmitOnlyOnRequiresAction ==
    request.op = "submit_tool_outputs" =>
        /\ run.status = "requires_action"
        /\ run.required_action.kind = "submit_tool_outputs"
        /\ Len(calls) >= 2
        /\ calls[Len(calls) - 1] = "get_run"

C1_Witness ==
    /\ request.op = "submit_tool_outputs"
    /\ Count("get_run", calls) >= 2
    /\ Count("submit_tool_outputs", calls) = 1

\* C2: once the run fetched last has a status outside {queued, in_progress,
\* requires_action}, no step issues a poll, a submission or a cancel: the only
\* remote call still issued is the message listing, and `run` is not fetched again.
C2_StopsOnFirstTerminal ==
    [][IsTerminal(run.status) =>
          /\ run' = run
          /\ calls' = calls \/ calls' = Append(calls, "list_messages")]_vars

C2_Witness ==
    /\ script = "advanced"
    /\ pc = "done"
    /\ IsTerminal(run.status)
    /\ Count("get_run", calls) >= 2
    /\ Count("submit_tool_outputs", calls) >= 1

\* C3: when a poll reports requires_action with a submit-tool-outputs action of
\* zero tool calls, the driver goes on to cancel the run; after that poll it has
\* issued exactly one cancel and no tool-output submission.
C3_EmptyBatchCancels ==
    (PolledRun /\ SubmitRequested(run) /\ run.required_action.tool_calls = <<>>) =>
        \/ /\ pc \in {"check", "cancel"}
           /\ Since("get_run", calls) = <<>>
        \/ /\ pc \in {"report", "list_messages", "done", "aborted"}
           /\ Since("get_run", calls) \in {<<"cancel_run">>, <<"cancel_run", "list_messages">>}

C3_Witness ==
    /\ PolledRun
    /\ SubmitRequested(run)
    /\ run.required_action.tool_calls = <<>>
    /\ request.op = "cancel_run"
    /\ Count("get_run", calls) >= 2

\* C4: during the dispatch of a batch the collected outputs are exactly one pair
\* for each function-type call handled so far that did not raise, in the order
\* of the batch (a raising call adds nothing and the calls after it are still
\* dispatched), and a submission carries exactly these pairs for the whole batch.
C4_SubmitsSucceedingCalls ==
    /\ pc = "dispatch" =>
          tool_outputs =
              ExpectedOutputs(SubSeq(run.required_action.tool_calls, 1, i - 1))
    /\ request.op = "submit_tool_outputs" =>
          /\ request.tool_outputs = ExpectedOutputs(run.required_action.tool_calls)
          /\ request.tool_outputs # <<>>

C4_Witness ==
    /\ request.op = "submit_tool_outputs"
    /\ Len(run.required_action.tool_calls) = 2
    /\ run.required_action.tool_calls[1].kind = "function"
    /\ run.required_action.tool_calls[1].outcome = "raise"
    /\ request.tool_outputs = <<[tool_call_id |-> 2, output |-> <<"output", 2>>]>>

\* C5: in both scripts, after the final report of a run whose final status is
\* failed, the report holds the final status and the run's last error.
C5_ReportsLastError ==
    (pc \in {"list_messages", "done"} /\ run.status = "failed") =>
        /\ \E k \in 1..Len(out) : out[k].value = "failed"
        /\ \E k \in 1..Len(out) : out[k].value = run.last_error

\* C6: exactly one lookup, by the fixed agent id; a fetched agent means no
\* creation call; a failed lookup means exactly one creation call, named with
\* the current timestamp; the run is started only with a resolved agent, the
\* fetched or the created one.
C6_AgentResolution ==
    /\ Count("get_agent", calls) <= 1
    /\ Count("create_agent", calls) <= 1
    /\ request.op = "get_agent" => request.agent_id = AGENT_ID
    /\ agent = AGENT_ID => Count("create_agent", calls) = 0
    /\ (pc \notin {"tracing", "exited", "get_agent", "create_agent"}) =>
          /\ Count("get_agent", calls) = 1
          /\ agent # AGENT_ID => Count("create_agent", calls) = 1
    /\ request.op = "create_agent" =>
          /\ request.name_stamp = now \div 60
          /\ calls[Len(calls) - 1] = "get_agent"
    /\ agent = CreatedAgentId => Count("create_agent", calls) = 1
    /\ Count("create_and_process", calls) >= 1 => agent \in {AGENT_ID, CreatedAgentId}
    /\ request.op = "create_and_process" => request.agent_id = agent

C6_Witness ==
    /\ request.op = "create_and_process"
    /\ request.agent_id = CreatedAgentId
    /\ Count("create_agent", calls) = 1
    /\ now >= 60

\* C7: for parseable start and end dates the records returned are distinct
\* rows of the table with decision date in [start_date, end_date], in order of
\* non-decreasing distance, at most `limit` of them, as many as there are
\* in-range rows up to `limit`, and no in-range row left out is closer than a
\* returned one.
C7_SearchInRangeSortedLimited ==
    search_result.status = "ok" =>
        LET rows    == search_result.rows
            lo      == Strptime(args.start_date)
            hi      == Strptime(args.end_date)
            inrange == {id \in DOMAIN cases :
                           lo <= cases[id].decision_date /\ cases[id].decision_date <= hi}
            got     == {rows[k].id : k \in 1..Len(rows)}
        IN  /\ got \subseteq inrange
            /\ \A k \in 1..Len(rows) : rows[k].similarity = cases[rows[k].id].distance
            /\ \A a, b \in 1..Len(rows) : a < b =>
                  rows[a].id # rows[b].id /\ rows[a].similarity <= rows[b].similarity
            /\ Len(rows) <= args.limit
            /\ Len(rows) = Min(args.limit, Cardinality(inrange))
            /\ \A id \in inrange \ got : \A k \in 1..Len(rows) :
                  rows[k].similarity <= cases[id].distance

C7_Witness ==
    /\ search_result.status = "ok"
    /\ Len(search_result.rows) = 2
    /\ args.limit = 2
    /\ search_result.rows[1].similarity < search_result.rows[2].similarity
    /\ \E id \in DOMAIN cases :
          /\ cases[id].decision_date = Strptime(args.end_date)
          /\ id = search_result.rows[1].id
    /\ \E id \in DOMAIN cases : cases[id].decision_date > Strptime(args.end_date)

\* C8: the count returned by count_cases never exceeds `limit`.
C8_CountNeverExceedsLimit ==
    count_result.status = "ok" =>
        \A k \in 1..Len(count_result.rows) : count_result.rows[k].count <= args.limit

C10_CancelLeavesLoop ==
    Count("cancel_run", calls) >= 1 =>
        /\ Count("cancel_run", calls) = 1
        /\ Since("cancel_run", calls) \in {<<>>, <<"list_messages">>}
        /\ pc \in {"report", "list_messages", "done", "aborted"}
        /\ run.status = "requires_action"
        /\ pc \in {"list_messages", "done"} =>
              out = <<[text |-> "Run completed with status", value |-> "requires_action"]>>

C10_Witness ==
    /\ pc = "done"
    /\ Count("cancel_run", calls) = 1
    /\ Last(calls) = "list_messages"
    /\ out = <<[text |-> "Run completed with status", value |-> "requires_action"]>>

====
